---- MODULE Spec2Model ----
(***************************************************************************)
(* Model of the measurement subsystem of control-hazard-analyzer:          *)
(* profilers/perfProfiler.py (PerfData, PerfProfiler).                     *)
(*                                                                         *)
(* A PerfData object is a record; a Python list of PerfData objects is a   *)
(* heap (a sequence of records, one per object) plus a sequence of         *)
(* references (indices into the heap), so that in-place assignments to an  *)
(* object are seen through every list that holds it.                       *)
(***************************************************************************)
EXTENDS Integers, Sequences, FiniteSets, TLC

VARIABLES
    pc,        \* position of the caller
    stats,     \* get_meddian: the list of PerfData objects passed in
    stats0,    \* get_meddian: the objects' fields when the call was made
    average,   \* get_meddian: the returned reference (None: no result)
    analyzed,  \* correct: the batch, test identity -> list of PerfData objects
    analyzed0, \* correct: the objects' fields when the call was made
    corrected, \* correct: the returned mapping, test identity -> dict
    raised,    \* the exception that reached the caller ("" when none)
    stderr,    \* the diagnostics the last step printed
    settings_timeout,   \* builder.settings.timeout, in ticks
    max_test_launches,  \* PerfProfiler.max_test_launches
    todo,               \* get_stats_dir: the binaries iterdir has yet to give
    binary,             \* get_stats_dir: the binary get_stat is running on
    left_time,          \* get_stat: left_time
    timeout,            \* get_stat: timeout, the deadline
    number_executes,    \* get_stat: number_executes
    now,                \* time.time(), counted from the start of get_stat
    call,               \* history: the last execute_test call of this get_stat:
                        \* the timeout it was given, the time it began at,
                        \* whether its wait timed out, the PerfData it
                        \* returned, the exit status the child has of its
                        \* own, and slow: every execution so far ran
                        \* longer than settings_timeout
    overrun,            \* history: ticks this get_stat spent after interrupts
    silent,             \* history: binaries whose every attempt so far timed
                        \* out and printed no counter line
    repeated,  \* correct: the mapping a second call on the same batch returned
    res,       \* PerfData.__sub__: the returned reference (None: not called)
    max_const, \* PerfData.max: the argument const
    once,      \* history: the object's fields after its first max(const)
    srcs,          \* build: the sources os.listdir has yet to give
    compiled,      \* history: source -> returncode of its compiler run
    bins,          \* update_capabilities_dir: binaries iterdir has yet to give
    pth,           \* update_capabilities_dir: the binary of the current turn
    sudo_hint,     \* update_capabilities_dir: sudo_hint
    use_sudo,      \* update_capabilities_dir: use_sudo
    suc_launch,    \* update_capabilities_dir: suc_launch
    used_max_perm, \* update_capabilities_dir: used_max_perm
    setcap_line,   \* update_capabilities_dir: execute_line
    setcap         \* history: what the update_capabilities_dir call in progress
                   \* has printed and run, in order

selvars == <<stats0, average>>
corvars == <<analyzed, analyzed0, corrected, raised, stderr>>
cfgvars == <<settings_timeout, max_test_launches>>
runvars == <<todo, binary, left_time, timeout, number_executes, now, call,
             overrun, silent>>
repvars == <<repeated>>
arithvars == <<res, max_const, once>>
prepvars == <<srcs, compiled, bins, pth, sudo_hint, use_sudo, suc_launch,
              used_max_perm, setcap_line, setcap>>
vars == <<pc, stats, selvars, corvars, cfgvars, runvars, repvars, arithvars,
          prepvars>>

\* ---------------------------------------------------------------- bounds
\* get_meddian alone: the longest list passed.
MaxLen == 3
\* correct alone: the most PerfData objects a batch holds over all its lists.
MaxObjects == 4
\* profile: the largest configured timeout, in ticks.
MaxTimeout == 2
\* profile: the largest configured max_test_launches.
MaxLaunches == 1
\* profile: the most executions of one binary followed when max_test_launches
\* is -1 and executions take no time.
MaxAttempts == MaxLaunches + 1
\* profile: the longest an interrupted child takes to stop, in ticks.
MaxStop == 1

\* Python's None, as a reference: no object of a heap has index 0.
None == 0

\* ------------------------------------------------------------- PerfData
\* max(a, b) of two ints (Python builtin used by PerfData.max).
imax(a, b) == IF a >= b THEN a ELSE b

\* Mutant of sub: the result carries the flag of the right operand.
sub_flag_of_other(self, other) ==
    [branches        |-> self.branches - other.branches,
     missed_branches |-> self.missed_branches - other.missed_branches,
     cache_bpu       |-> self.cache_bpu - other.cache_bpu,
     ticks           |-> self.ticks - other.ticks,
     instructions    |-> self.instructions - other.instructions,
     is_full         |-> other.is_full]

\* PerfData.__sub__: a new object, field-wise difference, is_full of self.
sub(self, other) ==
    [branches        |-> self.branches - other.branches,
     missed_branches |-> self.missed_branches - other.missed_branches,
     cache_bpu       |-> self.cache_bpu - other.cache_bpu,
     ticks           |-> self.ticks - other.ticks,
     instructions    |-> self.instructions - other.instructions,
     is_full         |-> self.is_full]

\* Mutant of max: only the two counters of the ratio are clamped.
max_ratio_only(self, const) ==
    [self EXCEPT !.branches = imax(@, const),
                 !.missed_branches = imax(@, const)]

\* PerfData.max: the object after the in-place clamp of its five counters.
max(self, const) ==
    [branches        |-> imax(self.branches, const),
     missed_branches |-> imax(self.missed_branches, const),
     cache_bpu       |-> imax(self.cache_bpu, const),
     ticks           |-> imax(self.ticks, const),
     instructions    |-> imax(self.instructions, const),
     is_full         |-> self.is_full]

\* PerfData.to_dict: the reported result shape.
to_dict(self) ==
    [k \in {"branchPred.lookups", "branchPred.condIncorrect",
            "branchPred.BTBUpdates", "simTicks", "instructions", "isFull"} |->
        CASE k = "branchPred.lookups"       -> self.branches
          [] k = "branchPred.condIncorrect" -> self.missed_branches
          [] k = "branchPred.BTBUpdates"    -> self.cache_bpu
          [] k = "simTicks"                 -> self.ticks
          [] k = "instructions"             -> self.instructions
          [] k = "isFull"                   -> self.is_full]

\* ------------------------------------------------------ Robust Selection
\* missed_pct, its side effect: the object after the call (branches 0 -> 1).
missed_pct_dt(dt) ==
    IF dt.branches = 0 THEN [dt EXCEPT !.branches = 1] ELSE dt

\* missed_pct, its value: missed_branches / branches of the object after the
\* assignment, kept as the exact quotient <<numerator, denominator>>.
missed_pct(dt) ==
    <<missed_pct_dt(dt).missed_branches, missed_pct_dt(dt).branches>>

\* q < r for two quotients with non-zero denominators (float comparison of
\* Python's true division; exact for the small integers of the model).
KeyLess(q, r) ==
    IF q[2] * r[2] > 0 THEN q[1] * r[2] < r[1] * q[2]
                       ELSE q[1] * r[2] > r[1] * q[2]

\* list.sort places x after every element already placed that is not greater
\* than x: the sort is stable.
sort_after(kx, ky) == ~KeyLess(kx, ky)

\* x inserted into the sorted sequence of references s, keys read from heap h.
RECURSIVE Insert(_, _, _)
Insert(h, s, x) ==
    IF s = <<>> THEN <<x>>
    ELSE IF sort_after(missed_pct(h[x]), missed_pct(h[s[Len(s)]]))
         THEN Append(s, x)
         ELSE Append(Insert(h, SubSeq(s, 1, Len(s) - 1), x), s[Len(s)])

\* list.sort(key=missed_pct) on the list of references refs.
RECURSIVE sort(_, _)
sort(h, refs) ==
    IF refs = <<>> THEN <<>>
    ELSE Insert(h, sort(h, SubSeq(refs, 1, Len(refs) - 1)), refs[Len(refs)])

\* Mutant of middle: the lower middle.
middle_low(n) == (n - 1) \div 2

\* The index len(stats) // 2 (0-based).
middle(n) == n \div 2

\* PerfProfiler._get_meddian on the list refs of objects of heap h: the key
\* function has run on every element of the list (list.sort computes all keys
\* first), the list is sorted, the middle element is returned.
_get_meddian(h, refs) ==
    LET touched == {refs[i] : i \in 1..Len(refs)}
        h2 == [i \in 1..Len(h) |-> IF i \in touched THEN missed_pct_dt(h[i]) ELSE h[i]]
        sorted == sort(h2, refs)
    IN  [heap |-> h2,
         list |-> sorted,
         ret  |-> IF Len(sorted) > 0 THEN sorted[middle(Len(sorted)) + 1] ELSE None]

\* Mutant of prefer_full: the all-samples result is kept.
prefer_all(avg, full_average) == avg

\* The override of the all-samples result by the complete-only result.
prefer_full(avg, full_average) ==
    IF full_average # None THEN full_average ELSE avg

\* PerfProfiler.get_meddian on the caller's list h (one object per element):
\* stats.copy() is a new list of the same objects.
get_meddian(h) ==
    LET copy == [i \in 1..Len(h) |-> i]
        all  == _get_meddian(h, copy)
        full_stats == SelectSeq(all.list, LAMBDA i : all.heap[i].is_full)
        full == _get_meddian(all.heap, full_stats)
    IN  [heap |-> full.heap,
         ret  |-> prefer_full(all.ret, full.ret)]

\* ---------------------------------------------------- Baseline Correction
\* self.empty_test_path.name.split(".")[0]
key_empty_test == "empty"

\* analyzed_average[key_empty_test].max(0): the reference's representative
\* object after the call.
floor_reference(ref) == max(ref, 0)

\* Mutant of report_keys: the reference is reported too.
report_keys_all(present) == present

\* The keys the final loop reports: every key of analyzed_average but the
\* reference's.
report_keys(present) == present \ {key_empty_test}

\* PerfProfiler.correct on the batch b (a function from test identity to the
\* list of that binary's objects; the lists of two binaries share no object).
\*   analyzed: the batch's objects after the call;
\*   stderr:   the identities a "can't get average result" line was printed for;
\*   raised:   "KeyError" when the subscript of line 221 finds no reference;
\*   ret:      the returned mapping.
correct(b) ==
    LET sel == [key \in DOMAIN b |-> get_meddian(b[key])]
        b1  == [key \in DOMAIN b |-> sel[key].heap]
        present == {key \in DOMAIN b : sel[key].ret # None}
        errors  == {<<"no_average", key>> : key \in DOMAIN b \ present}
    IN  IF key_empty_test \notin present
        THEN [analyzed |-> b1, stderr |-> errors, raised |-> "KeyError", ret |-> <<>>]
        ELSE LET r  == sel[key_empty_test].ret
                 b2 == [b1 EXCEPT ![key_empty_test][r] = floor_reference(@)]
                 ref == b2[key_empty_test][r]
             IN  [analyzed |-> b2,
                  stderr   |-> errors,
                  raised   |-> "",
                  ret      |-> [key \in report_keys(present) |->
                                   to_dict(sub(b2[key][sel[key].ret], ref))]]

\* ------------------------------------------------------ Execution Engine
\* str.strip on the fields a child prints.
strip(f) ==
    CASE f = " 1" -> "1" [] f = " 2" -> "2" [] f = " 3" -> "3"
      [] f = " 4" -> "4" [] f = " 5" -> "5" [] f = " abc" -> "abc"
      [] OTHER -> f

\* int(v) is defined on these strings and raises ValueError on the others.
IsInt(v) == v \in {"1", "2", "3", "4", "5", "-1"}
int(v) ==
    CASE v = "1" -> 1 [] v = "2" -> 2 [] v = "3" -> 3
      [] v = "4" -> 4 [] v = "5" -> 5 [] v = "-1" -> -1

\* PerfProfiler.output_to_dict on the lines of the output, each line given as
\* the fields line.split(":") yields: a line of two fields or more sets
\* name.strip() to val.strip(), later lines overriding earlier ones.
RECURSIVE output_to_dict(_)
output_to_dict(output) ==
    IF output = <<>> THEN <<>>
    ELSE LET d == output_to_dict(SubSeq(output, 1, Len(output) - 1))
             splitted == output[Len(output)]
         IN  IF Len(splitted) >= 2
             THEN [name \in DOMAIN d \cup {strip(splitted[1])} |->
                      IF name = strip(splitted[1]) THEN strip(splitted[2])
                      ELSE d[name]]
             ELSE d

\* data_dict.get(name, -1), as the argument int() receives.
dict_get(data_dict, name) ==
    IF name \in DOMAIN data_dict THEN data_dict[name] ELSE "-1"

\* PerfData.__init__: the new object, or the ValueError of int().
PerfData(data_dict, is_full) ==
    LET names == {"branches", "missed_branches", "cache_BPU", "cpu_clock",
                  "instructions"}
    IN  IF \E name \in names : ~IsInt(dict_get(data_dict, name))
        THEN [raised |-> "ValueError"]
        ELSE [raised |-> "",
              data |-> [branches        |-> int(dict_get(data_dict, "branches")),
                        missed_branches |-> int(dict_get(data_dict, "missed_branches")),
                        cache_bpu       |-> int(dict_get(data_dict, "cache_BPU")),
                        ticks           |-> int(dict_get(data_dict, "cpu_clock")),
                        instructions    |-> int(dict_get(data_dict, "instructions")),
                        is_full         |-> is_full]]

\* What a child process does in one execution: it runs for duration ticks and
\* exits with returncode unless interrupted, takes stop ticks to stop once
\* interrupted, and has by then written stdout (lines of fields) and stderr
\* (errors: whether anything was written); late: at duration = timeout the
\* wait loses the race and times out.
OutNone == << <<"">> >>
OutFull ==
    << <<"branches", " 2">>, <<"missed_branches", " 1">>, <<"cache_BPU", " 3">>,
       <<"cpu_clock", " 5">>, <<"instructions", " 4">>, <<"">> >>
OutJunk == << <<"perf", " cannot open counters">>, <<"branches", " abc">>, <<"">> >>
OutEmpty == << <<"branches", "">>, <<"">> >>
Outputs == {OutNone, OutFull, OutJunk, OutEmpty}

\* The children that differ in what execute_test(_, t, _) and get_stat see:
\* late is read only at duration = t, stop only after an interrupt, and of the
\* durations over t only whether they are over T as well.
Children(T, t) ==
    {c \in [duration : 0..(T + 1), returncode : {0, 1}, stop : 0..MaxStop,
             stdout : Outputs, errors : BOOLEAN, late : BOOLEAN] :
        /\ c.late => c.duration = t
        /\ c.stop > 0 => (c.duration > t \/ c.late)
        /\ c.duration > t => c.duration \in {t + 1, T + 1}}

\* proc.wait(timeout) raises TimeoutExpired.
TimeoutExpired(child, t) ==
    \/ child.duration > t
    \/ child.duration = t /\ child.late

\* Mutant of is_full_after: the flag is never cleared.
is_full_always(expired) == TRUE

\* is_full as execute_test leaves it: True, set to False by the handler of
\* TimeoutExpired.
is_full_after(expired) == IF expired THEN FALSE ELSE TRUE

\* PerfProfiler.execute_test(execute_line, t) on a child:
\*   raised: "" or the exception that leaves the function;
\*   data:   the returned PerfData;
\*   took:   the ticks from Popen to the return (stdout.read() returns at the
\*           child's end of file);
\*   prints: the diagnostics written to sys.stderr.
execute_test(execute_line, t, child) ==
    LET expired == TimeoutExpired(child, t)
        is_full == is_full_after(expired)
        returncode == IF expired THEN 0 ELSE child.returncode
        took == IF expired THEN t + child.stop ELSE child.duration
        made == PerfData(output_to_dict(child.stdout), is_full)
    IN  IF made.raised # ""
        THEN [raised |-> made.raised, took |-> took, prints |-> {}]
        ELSE [raised |-> "",
              data   |-> made.data,
              took   |-> took,
              prints |-> (IF child.errors
                          THEN {<<"launch_error", execute_line>>} ELSE {})
                         \cup (IF returncode # 0
                               THEN {<<"maybe_caps", "">>} ELSE {})]

\* ---------------------------------------------------- Sample Aggregation
\* Mutant of append_stat: the Sample of an interrupted run is dropped.
append_full_only(l, data) == IF data.is_full THEN Append(l, data) ELSE l

\* stats.append(...)
append_stat(l, data) == Append(l, data)

\* Mutant of keep_running: the loop runs on the time budget alone.
keep_running_on_time(left, n) == left > 0

\* The loop condition of get_stat.
keep_running(left, n) == left > 0 /\ n # 0

\* Mutant of remaining: every execution is given the whole budget.
remaining_whole(deadline, t) == deadline

\* left_time = timeout - time.time()
remaining(deadline, t) == deadline - t

\* ------------------------------------------ specification: get_meddian
\* The objects a caller may pass: sentinel, zero and positive counts.
\* The variables of the operations a specification does not run.
CorIdle ==
    /\ analyzed = <<>> /\ analyzed0 = <<>> /\ corrected = <<>>
    /\ raised = "" /\ stderr = {}

SelIdle == stats0 = <<>> /\ average = None

ArithIdle == res = None /\ max_const = 0 /\ once = <<>>

PrepIdle ==
    /\ srcs = {} /\ compiled = <<>> /\ bins = {} /\ pth = ""
    /\ sudo_hint = TRUE /\ use_sudo = FALSE
    /\ suc_launch = FALSE /\ used_max_perm = FALSE
    /\ setcap_line = <<>> /\ setcap = <<>>

RunIdle ==
    /\ settings_timeout = 0 /\ max_test_launches = 0
    /\ todo = {} /\ binary = "" /\ left_time = 0 /\ timeout = 0
    /\ number_executes = 0 /\ now = 0 /\ call = <<>> /\ overrun = 0
    /\ silent = {}

SelSamples ==
    [branches : {-1, 0, 1, 2}, missed_branches : {-1, 0, 1},
     cache_bpu : {-1}, ticks : {-1}, instructions : {-1}, is_full : BOOLEAN]

SeqsUpTo(S, n) == UNION {[1..k -> S] : k \in 0..n}

SelInit ==
    /\ pc = "call"
    /\ stats \in SeqsUpTo(SelSamples, MaxLen)
    /\ stats0 = stats
    /\ average = None
    /\ CorIdle
    /\ RunIdle
    /\ repeated = <<>>
    /\ ArithIdle
    /\ PrepIdle

\* average = self.get_meddian(stats)
CallGetMeddian ==
    /\ pc = "call"
    /\ LET r == get_meddian(stats)
       IN  /\ stats' = r.heap
           /\ average' = r.ret
    /\ pc' = "done"
    /\ UNCHANGED <<stats0, corvars, cfgvars, runvars, repvars, arithvars,
                   prepvars>>

SelNext == CallGetMeddian

SpecSelect == SelInit /\ [][SelNext]_vars

\* ------------------------------------- specification: end-to-end scenario 3
\* Five runs with misprediction ratios out of 0.1, 0.3, 0.5, 0.9.
ScenSamples ==
    [branches : {10}, missed_branches : {1, 3, 5, 9},
     cache_bpu : {-1}, ticks : {-1}, instructions : {-1}, is_full : BOOLEAN]

ScenInit ==
    /\ pc = "call"
    /\ stats \in [1..5 -> ScenSamples]
    /\ stats0 = stats
    /\ average = None
    /\ CorIdle
    /\ RunIdle
    /\ repeated = <<>>
    /\ ArithIdle
    /\ PrepIdle

SpecScenario == ScenInit /\ [][SelNext]_vars

\* ---------------------------------------------- specification: correct
Mk(t) ==
    [branches |-> t[1], missed_branches |-> t[2], cache_bpu |-> t[3],
     ticks |-> t[4], instructions |-> t[5], is_full |-> t[6]]

\* The objects of a batch: an interrupted run that printed nothing, a run
\* that counted nothing, the same with 50 more branches, two ordinary runs 50
\* branches apart with different flags, and a run with some counters missing.
CorSamples ==
    {Mk(t) : t \in {<<-1, -1, -1, -1, -1, FALSE>>,
                    << 0,  0,  0,  0,  0, TRUE>>,
                    <<50,  0,  0,  0,  0, TRUE>>,
                    << 2,  1,  3,  5,  4, TRUE>>,
                    <<52,  1,  3,  5,  4, FALSE>>,
                    <<-1,  2, -1,  7, -1, FALSE>>}}

Keys == {key_empty_test, "t1", "t2"}

CorInit ==
    /\ pc = "call"
    /\ \E n \in [Keys -> 0..MaxObjects] :
          /\ n[key_empty_test] + n["t1"] + n["t2"] <= MaxObjects
          /\ analyzed \in [empty : [1..n[key_empty_test] -> CorSamples],
                           t1    : [1..n["t1"] -> CorSamples],
                           t2    : [1..n["t2"] -> CorSamples]]
    /\ analyzed0 = analyzed
    /\ corrected = <<>>
    /\ raised = ""
    /\ stderr = {}
    /\ stats = <<>>
    /\ SelIdle
    /\ RunIdle
    /\ repeated = <<>>
    /\ ArithIdle
    /\ PrepIdle

\* corrected = self.correct(analyzed)
CallCorrect ==
    /\ pc = "call"
    /\ LET r == correct(analyzed)
       IN  /\ analyzed' = r.analyzed
           /\ stderr' = r.stderr
           /\ raised' = r.raised
           /\ corrected' = r.ret
           /\ pc' = IF r.raised = "" THEN "done" ELSE "raised"
    /\ UNCHANGED <<analyzed0, stats, selvars, cfgvars, runvars, repvars,
                   arithvars, prepvars>>

\* repeated = self.correct(analyzed): a second call on the same batch object.
CallCorrectAgain ==
    /\ pc = "done"
    /\ LET r == correct(analyzed)
       IN  /\ analyzed' = r.analyzed
           /\ stderr' = r.stderr
           /\ raised' = r.raised
           /\ repeated' = r.ret
           /\ pc' = IF r.raised = "" THEN "done2" ELSE "raised"
    /\ UNCHANGED <<analyzed0, corrected, stats, selvars, cfgvars, runvars,
                   arithvars, prepvars>>

CorNext == CallCorrect \/ CallCorrectAgain

SpecCorrect == CorInit /\ [][CorNext]_vars

\* ------------------------------------ specification: PerfData arithmetic
\* The left operand: every counter a sentinel, or a count; branches 0 too.
ArithSamples ==
    [branches : {-1, 0, 3}, missed_branches : {-1, 2}, cache_bpu : {-1, 4},
     ticks : {-1, 5}, instructions : {-1, 1}, is_full : BOOLEAN]

\* The values of const.
Consts == -1..1

\* Two objects self and other (references 1 and 2 of the heap stats), and const.
ArithInit ==
    /\ pc = "call"
    /\ \E self \in ArithSamples, other \in CorSamples : stats = <<self, other>>
    /\ stats0 = stats
    /\ average = None
    /\ res = None
    /\ max_const \in Consts
    /\ once = <<>>
    /\ CorIdle
    /\ RunIdle
    /\ repeated = <<>>
    /\ PrepIdle

\* res = self - other: __sub__ builds a new object and assigns its fields.
CallSub ==
    /\ pc = "call"
    /\ stats' = Append(stats, sub(stats[1], stats[2]))
    /\ res' = Len(stats) + 1
    /\ pc' = "sub"
    /\ UNCHANGED <<selvars, corvars, cfgvars, runvars, repvars, max_const, once,
                   prepvars>>

\* self.max(const), a first and a second time: the assignments are to self.
CallMax ==
    /\ pc \in {"call", "max"}
    /\ stats' = [stats EXCEPT ![1] = max(@, max_const)]
    /\ once' = IF pc = "call" THEN stats'[1] ELSE once
    /\ pc' = IF pc = "call" THEN "max" ELSE "max2"
    /\ UNCHANGED <<selvars, corvars, cfgvars, runvars, repvars, res, max_const,
                   prepvars>>

ArithNext == CallSub \/ CallMax

SpecArith == ArithInit /\ [][ArithNext]_vars

\* ---------------------------------------------- specification: profile
\* The binaries of build_dir, by test identity: the reference and one test.
Binaries == {key_empty_test, "t1"}

CounterNames ==
    {"branches", "missed_branches", "cache_BPU", "cpu_clock", "instructions"}

\* Mutant of check: subprocess.run without check=True.
check_off(returncode) == FALSE

\* subprocess.run(..., check=True) raises CalledProcessError.
check(returncode) == returncode # 0

\* Mutant of hint_due: the hint is printed at every elevated attempt.
hint_due_always(use, hint) == use

\* The hint is printed in this turn of the loop.
hint_due(use, hint) == use /\ hint

\* An entry of the history setcap: a printed hint, a run of execute_line on
\* pth with its returncode, or a printed error.
Entry(kind, b, line, returncode) ==
    [kind |-> kind, pth |-> b, line |-> line, returncode |-> returncode]

\* The binaries of build_dir: one per source the compiler exited with 0 on.
Built ==
    {src \in DOMAIN compiled :
        \E i \in 1..Len(compiled[src]) : compiled[src][i] = 0}

\* profile has patched the sources (the tests' and the reference's) and
\* calls builder.build.
Init ==
    /\ pc = "build"
    /\ settings_timeout \in 0..MaxTimeout
    /\ max_test_launches \in -1..MaxLaunches
    /\ srcs = Binaries
    /\ compiled = [src \in Binaries |-> <<>>]
    /\ bins = {} /\ pth = ""
    /\ sudo_hint = TRUE /\ use_sudo = FALSE
    /\ suc_launch = FALSE /\ used_max_perm = FALSE
    /\ setcap_line = <<>> /\ setcap = <<>>
    /\ repeated = <<>>
    /\ ArithIdle
    /\ todo = {}
    /\ binary = ""
    /\ stats = <<>>
    /\ left_time = 0 /\ timeout = 0 /\ number_executes = 0 /\ now = 0
    /\ call = <<>> /\ overrun = 0 /\ silent = {}
    /\ CorIdle
    /\ SelIdle

\* One turn of build's loop: the compiler runs on the next source file; a
\* nonzero exit raises CalledProcessError, which leaves build and profile.
Compile ==
    /\ pc = "build"
    /\ \E test_file \in srcs, returncode \in {0, 1} :
          /\ srcs' = srcs \ {test_file}
          /\ compiled' = [compiled EXCEPT ![test_file] = Append(@, returncode)]
          /\ IF check(returncode)
             THEN /\ raised' = "CalledProcessError"
                  /\ pc' = "raised"
             ELSE UNCHANGED <<raised, pc>>
    /\ UNCHANGED <<stats, selvars, analyzed, analyzed0, corrected, stderr,
                   cfgvars, runvars, repvars, arithvars, bins, pth, sudo_hint,
                   use_sudo, suc_launch, used_max_perm, setcap_line, setcap>>

\* build returns and update_capabilities_dir starts on build_dir.
BuildReturn ==
    /\ pc = "build"
    /\ srcs = {}
    /\ sudo_hint' = TRUE
    /\ use_sudo' = FALSE
    /\ bins' = Built
    /\ pc' = "update_capabilities_dir"
    /\ UNCHANGED <<stats, selvars, corvars, cfgvars, runvars, repvars,
                   arithvars, srcs, compiled, pth, suc_launch, used_max_perm,
                   setcap_line, setcap>>

\* update_capabilities_dir takes the next binary, up to its inner loop.
NextBinary ==
    /\ pc = "update_capabilities_dir"
    /\ \E b \in bins :
          /\ bins' = bins \ {b}
          /\ pth' = b
    /\ suc_launch' = FALSE
    /\ used_max_perm' = FALSE
    /\ setcap_line' = <<"setcap", "cap_sys_admin,cap_sys_nice=ep">>
    /\ pc' = "setcap"
    /\ UNCHANGED <<stats, selvars, corvars, cfgvars, runvars, repvars,
                   arithvars, srcs, compiled, sudo_hint, use_sudo, setcap>>

\* One turn of the inner loop: the hint, the run of setcap, the flags.
SetCap ==
    /\ pc = "setcap"
    /\ ~suc_launch /\ ~used_max_perm
    /\ \E returncode \in {0, 1} :
          LET line == IF use_sudo THEN <<"sudo">> \o setcap_line
                                  ELSE setcap_line
              used == IF use_sudo THEN TRUE ELSE used_max_perm
          IN  /\ sudo_hint' = IF hint_due(use_sudo, sudo_hint) THEN FALSE
                                                               ELSE sudo_hint
              /\ setcap_line' = line
              /\ used_max_perm' = used
              /\ suc_launch' = IF returncode = 0 THEN TRUE ELSE suc_launch
              /\ use_sudo' = IF returncode = 0 THEN use_sudo ELSE TRUE
              /\ setcap' = setcap
                    \o (IF hint_due(use_sudo, sudo_hint)
                        THEN <<Entry("hint", "", <<>>, 0)>> ELSE <<>>)
                    \o <<Entry("run", pth, line, returncode)>>
                    \o (IF returncode # 0 /\ used
                        THEN <<Entry("error", pth, <<>>, 0)>> ELSE <<>>)
    /\ UNCHANGED <<pc, stats, selvars, corvars, cfgvars, runvars, repvars,
                   arithvars, srcs, compiled, bins, pth>>

\* The inner loop ends: the binary is done with.
SetCapDone ==
    /\ pc = "setcap"
    /\ ~(~suc_launch /\ ~used_max_perm)
    /\ pc' = "update_capabilities_dir"
    /\ UNCHANGED <<stats, selvars, corvars, cfgvars, runvars, repvars,
                   arithvars, prepvars>>

\* update_capabilities_dir returns (its variables and the history of the
\* call end with it) and get_stats_dir starts on build_dir.
UpdateCapabilitiesReturn ==
    /\ pc = "update_capabilities_dir"
    /\ bins = {}
    /\ pth' = ""
    /\ sudo_hint' = TRUE /\ use_sudo' = FALSE
    /\ suc_launch' = FALSE /\ used_max_perm' = FALSE
    /\ setcap_line' = <<>> /\ setcap' = <<>>
    /\ todo' = Built
    /\ pc' = "get_stats_dir"
    /\ UNCHANGED <<stats, selvars, corvars, cfgvars, binary, left_time,
                   timeout, number_executes, now, call, overrun, silent,
                   repvars, arithvars, srcs, compiled, bins>>

\* get_stats_dir takes the next binary and get_stat runs up to its loop.
GetStat ==
    /\ pc = "get_stats_dir"
    /\ \E b \in todo :
          /\ binary' = b
          /\ todo' = todo \ {b}
          /\ silent' = silent \cup {b}
    /\ stats' = <<>>
    /\ left_time' = settings_timeout
    /\ now' = 0
    /\ timeout' = 0 + settings_timeout
    /\ number_executes' = max_test_launches
    /\ call' = <<>>
    /\ overrun' = 0
    /\ pc' = "get_stat"
    /\ stderr' = {}
    /\ UNCHANGED <<selvars, analyzed, analyzed0, corrected, raised, cfgvars,
                   repvars, arithvars, prepvars>>

\* One turn of get_stat's loop: execute_test, then the two updates. An
\* exception of execute_test leaves get_stat, get_stats_dir and profile.
ExecuteTest ==
    /\ pc = "get_stat"
    /\ keep_running(left_time, number_executes)
    /\ Len(stats) < MaxAttempts
    /\ \E child \in Children(settings_timeout, left_time) :
          LET r == execute_test(binary, left_time, child)
              expired == TimeoutExpired(child, left_time)
          IN  /\ stderr' = r.prints
              /\ IF r.raised # ""
                 THEN /\ raised' = r.raised
                      /\ pc' = "raised"
                      /\ stats' = <<>>
                      /\ left_time' = 0 /\ number_executes' = 0 /\ now' = 0
                      /\ timeout' = 0 /\ overrun' = 0
                      /\ call' = [timeout |-> left_time, at |-> 0,
                                  expired |-> expired,
                                  returncode |-> child.returncode,
                                  slow |-> FALSE]
                      /\ UNCHANGED silent
                 ELSE /\ stats' = append_stat(stats, r.data)
                      /\ now' = now + r.took
                      /\ left_time' = remaining(timeout, now')
                      /\ number_executes' = number_executes - 1
                      /\ call' = [timeout |-> left_time, at |-> now,
                                  expired |-> expired, data |-> r.data,
                                  returncode |-> child.returncode,
                                  slow |-> /\ child.duration > settings_timeout
                                           /\ (call # <<>> => call.slow)]
                      /\ overrun' = overrun + (IF expired THEN child.stop ELSE 0)
                      /\ silent' =
                            IF /\ expired
                               /\ DOMAIN output_to_dict(child.stdout)
                                     \cap CounterNames = {}
                            THEN silent ELSE silent \ {binary}
                      /\ UNCHANGED <<raised, pc, timeout>>
    /\ UNCHANGED <<selvars, analyzed, analyzed0, corrected, cfgvars, todo,
                   binary, repvars, arithvars, prepvars>>

\* get_stat returns its list and get_stats_dir stores it.
GetStatReturn ==
    /\ pc = "get_stat"
    /\ ~keep_running(left_time, number_executes)
    /\ analyzed' = [key \in DOMAIN analyzed \cup {binary} |->
                       IF key = binary THEN stats ELSE analyzed[key]]
    /\ stats' = <<>>
    /\ left_time' = 0 /\ timeout' = 0 /\ number_executes' = 0 /\ now' = 0
    /\ call' = <<>> /\ overrun' = 0
    /\ binary' = ""
    /\ pc' = "get_stats_dir"
    /\ stderr' = {}
    /\ UNCHANGED <<selvars, analyzed0, corrected, raised, cfgvars, todo,
                   silent, repvars, arithvars, prepvars>>

\* return self.correct(analyzed)
Correct ==
    /\ pc = "get_stats_dir"
    /\ todo = {}
    /\ analyzed0' = analyzed
    /\ LET r == correct(analyzed)
       IN  /\ analyzed' = r.analyzed
           /\ stderr' = r.stderr
           /\ raised' = r.raised
           /\ corrected' = r.ret
           /\ pc' = IF r.raised = "" THEN "done" ELSE "raised"
    /\ UNCHANGED <<stats, selvars, cfgvars, runvars, repvars, arithvars,
                   prepvars>>

Next ==
    \/ Compile \/ BuildReturn
    \/ NextBinary \/ SetCap \/ SetCapDone \/ UpdateCapabilitiesReturn
    \/ GetStat \/ ExecuteTest \/ GetStatReturn \/ Correct

Spec == Init /\ [][Next]_vars

\* ------------------------------------------------- claims on get_meddian
\* The misprediction ratio as the specification defines it: missed_branches
\* over branches, branches taken as 1 when it is 0.
Ratio(s) == <<s.missed_branches, IF s.branches = 0 THEN 1 ELSE s.branches>>

\* The 0-based rank of element i among the elements I of h in the ascending
\* stable order by Ratio: the elements that come before it.
Rank(h, I, i) ==
    Cardinality({j \in I :
        \/ KeyLess(Ratio(h[j]), Ratio(h[i]))
        \/ /\ ~KeyLess(Ratio(h[i]), Ratio(h[j]))
           /\ ~KeyLess(Ratio(h[j]), Ratio(h[i]))
           /\ j < i})

Complete(h) == {i \in 1..Len(h) : h[i].is_full}

SameFlag(h) == \A i, j \in 1..Len(h) : h[i].is_full = h[j].is_full

\* C3 (as claimed): get_meddian leaves every field of every Sample of the
\* sequence it is given as it was before the call.
C3_SamplesUnchanged ==
    pc = "done" => stats = stats0

\* C6: for N Samples with one completeness flag the returned Sample is the one
\* of rank N // 2 in the stable ascending order by misprediction ratio, and
\* for N = 0 nothing is returned.
C6_MiddleOfStableSort ==
    (pc = "done" /\ SameFlag(stats0)) =>
        IF Len(stats0) = 0
        THEN average = None
        ELSE /\ average \in 1..Len(stats0)
             /\ Rank(stats0, 1..Len(stats0), average) = Len(stats0) \div 2

\* C6 witness: three Samples with one flag, two of them tied, one with a
\* branches count of 0, and the later of the tied pair selected.
C6_Witness ==
    /\ pc = "done"
    /\ Len(stats0) = 3
    /\ SameFlag(stats0)
    /\ \E i \in 1..3 : stats0[i].branches = 0
    /\ \E i \in 1..3 : /\ i < average
                       /\ ~KeyLess(Ratio(stats0[i]), Ratio(stats0[average]))
                       /\ ~KeyLess(Ratio(stats0[average]), Ratio(stats0[i]))

\* C7: when some Sample is complete, the returned Sample is complete and is
\* the one of rank M // 2 among the M complete Samples in stable ascending
\* order by misprediction ratio; an incomplete Sample is returned only when no
\* Sample is complete.
C7_PrefersComplete ==
    pc = "done" =>
        /\ Complete(stats0) # {} =>
              /\ average \in Complete(stats0)
              /\ Rank(stats0, Complete(stats0), average)
                    = Cardinality(Complete(stats0)) \div 2
        /\ (average # None /\ average \notin Complete(stats0)) =>
              Complete(stats0) = {}

\* C7 witness: the Sample of rank N // 2 of the whole sequence is incomplete,
\* and a complete Sample is returned instead.
C7_Witness ==
    /\ pc = "done"
    /\ Len(stats0) = 3
    /\ average \in Complete(stats0)
    /\ \E i \in 1..3 : /\ ~stats0[i].is_full
                       /\ Rank(stats0, 1..3, i) = 3 \div 2

\* The five runs of scenario 3: ratios 0.5, 0.1, 0.9, 0.1, 0.3 in execution
\* order, the runs of ratio 0.9 and 0.3 incomplete.
IsScenario3(h) ==
    /\ Len(h) = 5
    /\ [i \in 1..5 |-> h[i].missed_branches] = <<5, 1, 9, 1, 3>>
    /\ [i \in 1..5 |-> h[i].is_full] = <<TRUE, TRUE, FALSE, TRUE, FALSE>>

\* C8 (as claimed): in scenario 3 the returned Sample is the 2nd run, the
\* first occurrence of ratio 0.1.
C8_FirstOccurrence ==
    (pc = "done" /\ IsScenario3(stats0)) => average = 2

\* C8 (amended): in scenario 3 the returned Sample has ratio 0.1 and is the
\* 4th run, the later of the two runs of that ratio: rank 3 // 2 = 1 of the
\* complete runs in stable order (2nd, 4th, 1st).
C8_SecondOccurrence ==
    (pc = "done" /\ IsScenario3(stats0)) =>
        /\ average = 4
        /\ stats0[average].missed_branches = 1

\* C8 witness: get_meddian has returned on the five runs of scenario 3.
C8_Witness ==
    pc = "done" /\ IsScenario3(stats0) /\ average # None

\* ----------------------------------------------------- claims on correct
NonEmpty(b) == {key \in DOMAIN b : Len(b[key]) > 0}

\* The Sample Robust Selection picks for test identity key, with the field
\* values it had in the batch handed to correct.
Representative(key) == analyzed0[key][get_meddian(analyzed0[key]).ret]

\* C2 (as claimed): correct returns a mapping for every batch; every binary
\* with no Samples is reported and left out and the others are processed, also
\* when the binary with no Samples is the reference.
C2_AlwaysReturns ==
    pc # "call" =>
        /\ raised = ""
        /\ \A key \in Keys \ NonEmpty(analyzed0) : <<"no_average", key>> \in stderr
        /\ DOMAIN corrected = NonEmpty(analyzed0) \ {key_empty_test}

\* C4 (as claimed): with R and S the representative Samples of the reference
\* and of another binary, every counter of that binary's entry is
\* S.f - max(R.f, 0) and isFull is S's flag, so no counter of the entry is
\* greater than S's.
C4_FieldwiseCorrection ==
    pc = "done" =>
        \A key \in DOMAIN corrected :
            LET S == Representative(key)
                R == Representative(key_empty_test)
                e == corrected[key]
            IN  /\ e["branchPred.lookups"] = S.branches - imax(R.branches, 0)
                /\ e["branchPred.condIncorrect"]
                      = S.missed_branches - imax(R.missed_branches, 0)
                /\ e["branchPred.BTBUpdates"] = S.cache_bpu - imax(R.cache_bpu, 0)
                /\ e["simTicks"] = S.ticks - imax(R.ticks, 0)
                /\ e["instructions"] = S.instructions - imax(R.instructions, 0)
                /\ e["isFull"] = S.is_full
                /\ e["branchPred.lookups"] <= S.branches

\* C5: when the reference has a Sample, the keys of the returned mapping are
\* the identities with at least one Sample, the reference's left out.
C5_KeySet ==
    (pc # "call" /\ Len(analyzed0[key_empty_test]) > 0) =>
        /\ raised = ""
        /\ DOMAIN corrected = NonEmpty(analyzed0) \ {key_empty_test}

\* C5 witness: the reference and t1 have Samples, t2 has none, and the
\* mapping returned has the one key t1.
C5_Witness ==
    /\ pc = "done"
    /\ NonEmpty(analyzed0) = {key_empty_test, "t1"}
    /\ DOMAIN corrected = {"t1"}
    /\ <<"no_average", "t2">> \in stderr

\* ----------------------------------------------------- claims on profile
SampleCounters(d) ==
    {d["branchPred.lookups"], d["branchPred.condIncorrect"],
     d["branchPred.BTBUpdates"], d["simTicks"], d["instructions"]}

\* C1 (as claimed): when every attempt on the test binary timed out and
\* printed no counter, the mapping returned has no entry for it and a warning
\* names it.
C1_TimedOutAbsent ==
    (pc = "done" /\ "t1" \in silent) =>
        /\ "t1" \notin DOMAIN corrected
        /\ <<"no_average", "t1">> \in stderr

\* C1 (amended): when every attempt on the test binary timed out and printed
\* no counter, get_stat returned one Sample for it, and the mapping correct
\* returns has an entry for it with isFull false and every counter -1 less a
\* floored reference counter (at most -1); correct prints no warning naming
\* it.
C1_TimedOutReported ==
    (pc = "done" /\ "t1" \in silent) =>
        /\ Len(analyzed0["t1"]) = 1
        /\ "t1" \in DOMAIN corrected
        /\ corrected["t1"]["isFull"] = FALSE
        /\ \A v \in SampleCounters(corrected["t1"]) : v <= -1
        /\ <<"no_average", "t1">> \notin stderr

\* C1 witness: profile has returned a mapping after the test binary's only
\* attempt timed out without output, and the mapping has its entry.
C1_Witness ==
    /\ pc = "done"
    /\ "t1" \in silent
    /\ "t1" \in DOMAIN corrected
    /\ corrected["t1"]["branchPred.lookups"] = -3

\* C9 (as claimed): every execute_test call starts with a budget left, is
\* given settings_timeout less the time elapsed since get_stat began, and the
\* time spent on all attempts never exceeds settings_timeout.
C9_TotalWithinBudget ==
    (pc = "get_stat" /\ call # <<>>) =>
        /\ call.timeout > 0
        /\ call.timeout = settings_timeout - call.at
        /\ now <= settings_timeout

\* C9 (amended): every execute_test call starts with a budget left and is
\* given settings_timeout less the time elapsed since get_stat began; the
\* time spent on all attempts exceeds settings_timeout by no more than the
\* time interrupted children took to stop, and after an interrupted attempt
\* no other attempt is started.
C9_WaitsWithinBudget ==
    (pc = "get_stat" /\ call # <<>>) =>
        /\ call.timeout > 0
        /\ call.timeout = settings_timeout - call.at
        /\ now - overrun <= settings_timeout
        /\ call.expired => ~keep_running(left_time, number_executes)
        /\ ~call.expired => overrun = 0

\* C9 witness: a second attempt began with less than the whole budget, timed
\* out, and its child took time to stop: the budget is overrun.
C9_Witness ==
    /\ pc = "get_stat"
    /\ Len(stats) = 2
    /\ call.at > 0
    /\ call.expired
    /\ now > settings_timeout

\* C10: get_stat holds one Sample per attempt, the last attempt's last; with
\* max_test_launches = N >= 0 it makes at most N attempts; when every
\* execution runs longer than the budget it makes one attempt; with -1 its
\* loop ends only on left_time <= 0.
C10_AttemptsBounded ==
    /\ pc = "get_stat" =>
          /\ Len(stats) = max_test_launches - number_executes
          /\ call # <<>> => stats[Len(stats)] = call.data
          /\ call = <<>> => stats = <<>>
          /\ max_test_launches >= 0 => Len(stats) <= max_test_launches
          /\ (call # <<>> /\ call.slow) =>
                /\ Len(stats) = 1
                /\ ~keep_running(left_time, number_executes)
          /\ (max_test_launches = -1
                 /\ ~keep_running(left_time, number_executes)) => left_time <= 0
    /\ pc \in {"get_stat", "get_stats_dir"} =>
          \A key \in DOMAIN analyzed :
              max_test_launches >= 0 => Len(analyzed[key]) <= max_test_launches

\* C10 witness: with max_test_launches = 1 an execution that took no time
\* has ended the loop with the whole budget left.
C10_Witness ==
    /\ pc = "get_stat"
    /\ max_test_launches = 1
    /\ Len(stats) = 1
    /\ left_time = settings_timeout
    /\ ~keep_running(left_time, number_executes)

\* C14: the floor operation leaves its operand unchanged: after correct has
\* returned, no object of the batch, the reference's representative included,
\* has had a negative (sentinel) counter overwritten.
C14_FloorLeavesOperand ==
    pc = "done" =>
        \A key \in DOMAIN analyzed0 : \A i \in 1..Len(analyzed0[key]) :
            \A f \in {"branches", "missed_branches", "cache_bpu", "ticks",
                       "instructions"} :
                analyzed0[key][i][f] < 0 =>
                    analyzed[key][i][f] = analyzed0[key][i][f]

\* C19: correct is repeatable: a second call on the same batch object returns
\* a mapping equal to the one the first call returned.
C19_Repeatable ==
    pc = "done2" => repeated = corrected

\* ------------------------------------------- claims on PerfData arithmetic
\* The five counter fields of a PerfData object.
Fields == {"branches", "missed_branches", "cache_bpu", "ticks", "instructions"}

\* C17: subtraction is exactly field-wise: each counter of self - other is
\* the counter of self minus the counter of other, the result carries the
\* is_full of self, and self and other keep their fields.
C17_SubFieldwise ==
    pc = "sub" =>
        /\ \A f \in Fields : stats[res][f] = stats0[1][f] - stats0[2][f]
        /\ stats[res].is_full = stats0[1].is_full
        /\ res \notin {1, 2}
        /\ stats[1] = stats0[1]
        /\ stats[2] = stats0[2]

\* A subtraction of operands with different flags and a negative difference.
C17_Witness ==
    /\ pc = "sub"
    /\ stats0[1].is_full # stats0[2].is_full
    /\ stats0[1].branches = 3 /\ stats0[2].branches = 52
    /\ stats[res].branches = -49

\* C18: flooring is per-field and idempotent: after max(const) each counter
\* is the larger of its former value and const, is_full is unchanged, and a
\* second max(const) changes nothing.
C18_FloorPerFieldIdempotent ==
    /\ pc \in {"max", "max2"} =>
          /\ \A f \in Fields :
                stats[1][f] = IF stats0[1][f] >= max_const THEN stats0[1][f] ELSE max_const
          /\ stats[1].is_full = stats0[1].is_full
    /\ pc \in {"max", "max2"} => once = stats[1]

\* An object with sentinels and counts floored twice at 0.
C18_Witness ==
    /\ pc = "max2"
    /\ max_const = 0
    /\ stats0[1].branches = -1 /\ stats0[1].ticks = 5
    /\ stats[1].branches = 0 /\ stats[1].ticks = 5

\* ---------------------------------------------- claims on execute_test
\* C13: a run whose output cannot be parsed into counters does not abort the
\* batch: no ValueError (raised by int() alone, on a counter value that is
\* empty or no integer) leaves execute_test.
C13_UnparsableYieldsSample ==
    raised # "ValueError"

\* C15: the PerfData execute_test returns has is_full true exactly when the
\* wait returned before the timeout expired, false exactly when it timed out.
C15_FullIffWaitReturned ==
    (pc = "get_stat" /\ call # <<>>) =>
        /\ call.data.is_full = ~call.expired
        /\ stats[Len(stats)].is_full = ~call.expired

\* An interrupted run that had printed its counters, and was to exit with 1.
C15_Witness ==
    /\ pc = "get_stat" /\ call # <<>>
    /\ call.expired /\ call.returncode = 1
    /\ call.data.branches = 2
    /\ ~call.data.is_full

\* C20: a run that timed out or exited on its own with a nonzero code still
\* yields a PerfData, and the "maybe perf don't have enough capabilities"
\* warning is printed for it exactly when it exited on its own; a run that
\* exited on its own with code 0 prints no such warning.
C20_WarningExactlyForNonzeroExit ==
    call # <<>> =>
        /\ (call.expired \/ call.returncode # 0) =>
              /\ pc = "get_stat"
              /\ <<"maybe_caps", "">> \in stderr <=> ~call.expired
        /\ (pc = "get_stat" /\ ~call.expired /\ call.returncode = 0) =>
              <<"maybe_caps", "">> \notin stderr

\* ------------------------------------- claims on build and capabilities
\* The runs of setcap in the history, and those made through sudo.
Runs == {i \in 1..Len(setcap) : setcap[i].kind = "run"}

Elevated == {i \in Runs : Head(setcap[i].line) = "sudo"}

Hints == {i \in 1..Len(setcap) : setcap[i].kind = "hint"}

\* C11: every elevated attempt on a binary comes after an unprivileged
\* attempt on that same binary that failed, so the first attempt on every
\* binary is unprivileged.
C11_UnprivilegedFirst ==
    \A i \in Elevated :
        \E j \in Runs \ Elevated :
            /\ j < i
            /\ setcap[j].pth = setcap[i].pth
            /\ setcap[j].returncode # 0

\* C12: each binary gets at most two attempts and at most one elevated
\* attempt, a failed elevated attempt is reported and ends the binary's loop,
\* and the hint is printed at most once in the run, immediately before the
\* first elevated attempt.
C12_AttemptsAndHintOnce ==
    /\ \A b \in Binaries :
          /\ Cardinality({i \in Runs : setcap[i].pth = b}) <= 2
          /\ Cardinality({i \in Elevated : setcap[i].pth = b}) <= 1
    /\ \A i \in Runs : Len(setcap[i].line) <= 3
    /\ Cardinality(Hints) <= 1
    /\ \A i \in Hints : i + 1 \in Elevated /\ \A j \in Elevated : j > i
    /\ \A i \in Elevated : (\A j \in Elevated : j >= i) => i - 1 \in Hints
    /\ \A i \in Elevated :
          setcap[i].returncode # 0 =>
              /\ i + 1 <= Len(setcap)
              /\ setcap[i + 1] = Entry("error", setcap[i].pth, <<>>, 0)
    /\ (pc = "setcap" /\ \E i \in Elevated : setcap[i].pth = pth)
          => ~(~suc_launch /\ ~used_max_perm)

\* Both binaries needed sudo: two elevated attempts, one hint, a failure
\* reported, the call about to return.
C12_Witness ==
    /\ pc = "update_capabilities_dir" /\ bins = {}
    /\ Cardinality(Elevated) = 2
    /\ Cardinality(Hints) = 1
    /\ \E i \in 1..Len(setcap) : setcap[i].kind = "error"

\* C16: once the compiler has exited nonzero on a source, CalledProcessError
\* has left build and profile: that source was the last to be compiled, no
\* source was compiled twice, no capability was set, no binary was executed
\* and no mapping was returned.
C16_BuildFailureFatal ==
    (\E src \in Binaries : \E i \in 1..Len(compiled[src]) : compiled[src][i] # 0)
        => /\ pc = "raised" /\ raised = "CalledProcessError"
           /\ \A src \in Binaries : Len(compiled[src]) <= 1
           /\ Cardinality({src \in Binaries : compiled[src] = <<1>>}) = 1
           /\ setcap = <<>> /\ pth = ""
           /\ stats = <<>> /\ call = <<>> /\ binary = "" /\ silent = {}
           /\ analyzed = <<>> /\ corrected = <<>>

\* The second source failed to compile after the first had compiled.
C16_Witness ==
    /\ pc = "raised" /\ raised = "CalledProcessError"
    /\ srcs = {}
    /\ \E src \in Binaries : compiled[src] = <<0>>
    /\ \E src \in Binaries : compiled[src] = <<1>>
====
